---- MODULE Spec2Model ----
(***************************************************************************)
(* Edit history and key-command interpreter of the SimpleCodeEditor        *)
(* component (src/unnamed/part_001; src/src/lib/Editor.svelte is an older  *)
(* copy of the same script).                                               *)
(*                                                                         *)
(* A text is a sequence of one-character strings.  A Rec is                *)
(* [value, selectionStart, selectionEnd]; a history entry adds timestamp.  *)
(* The stack is a TLA+ sequence, so the JavaScript index i is i + 1 here.  *)
(***************************************************************************)
EXTENDS Integers, Sequences, FiniteSets, TLC

\* ------------------------------------------------------------------------
\* Program constants
\* ------------------------------------------------------------------------
HISTORY_LIMIT == 100

HISTORY_TIME_GAP == 3000

\* The double-quote and the backtick characters are written DQ and BT: a
\* text is a sequence of character tokens and these two have no literal.
DQ == "dquote"

BT == "backtick"

PAIRS ==
  [k \in {"(", "[", "{", DQ, "'", BT} |->
     CASE k = "(" -> <<"(", ")">>
       [] k = "[" -> <<"[", "]">>
       [] k = "{" -> <<"{", "}">>
       [] OTHER   -> <<k, k>>]

\* ------------------------------------------------------------------------
\* JavaScript string primitives used by the component
\* ------------------------------------------------------------------------
Min(a, b) == IF a < b THEN a ELSE b

Max(a, b) == IF a > b THEN a ELSE b

\* An index argument clamped to [0, n] (String.prototype.substring).
ClampIdx(i, n) == Max(0, Min(i, n))

\* text.substring(a, b): both arguments clamped, swapped when a > b.
Substring(text, a, b) ==
  LET ca == ClampIdx(a, Len(text))
      cb == ClampIdx(b, Len(text))
      lo == Min(ca, cb)
      hi == Max(ca, cb)
  IN  SubSeq(text, lo + 1, hi)

\* text.substring(a)
SubstringFrom(text, a) == Substring(text, a, Len(text))

\* text.startsWith(prefix)
StartsWith(text, prefix) ==
  /\ Len(prefix) <= Len(text)
  /\ SubSeq(text, 1, Len(prefix)) = prefix

\* text.endsWith(suffix)
EndsWith(text, suffix) ==
  /\ Len(suffix) <= Len(text)
  /\ SubSeq(text, Len(text) - Len(suffix) + 1, Len(text)) = suffix

\* ch.repeat(n)
RECURSIVE Repeat(_, _)
Repeat(ch, n) == IF n <= 0 THEN <<>> ELSE <<ch>> \o Repeat(ch, n - 1)

\* text.split('\n'): always at least one element.
RECURSIVE Split(_)
Split(text) ==
  LET nls == {i \in 1..Len(text) : text[i] = "\n"}
  IN  IF nls = {} THEN <<text>>
      ELSE LET i == CHOOSE j \in nls : \A k \in nls : j <= k
           IN  <<SubSeq(text, 1, i - 1)>> \o Split(SubSeq(text, i + 1, Len(text)))

\* lines.join('\n')
RECURSIVE Join(_)
Join(lines) ==
  IF Len(lines) = 0 THEN <<>>
  ELSE IF Len(lines) = 1 THEN lines[1]
  ELSE lines[1] \o <<"\n">> \o Join(Tail(lines))

\* getLines(text, position)
getLines(text, position) == Split(Substring(text, 0, position))

\* lines.pop(): the last element.
Pop(lines) == lines[Len(lines)]

\* Characters matched by \s and by [a-z0-9] with the i flag.
Whitespace == {" ", "\t", "\n", "\r", "\f"}

Alnum ==
  {"a", "b", "c", "d", "e", "f", "g", "h", "i", "j", "k", "l", "m",
   "n", "o", "p", "q", "r", "s", "t", "u", "v", "w", "x", "y", "z",
   "A", "B", "C", "D", "E", "F", "G", "H", "I", "J", "K", "L", "M",
   "N", "O", "P", "Q", "R", "S", "T", "U", "V", "W", "X", "Y", "Z",
   "0", "1", "2", "3", "4", "5", "6", "7", "8", "9"}

\* /\S/.test(text)
HasNonSpace(text) == \E i \in 1..Len(text) : text[i] \notin Whitespace

\* text.match(/^\s+/): the leading whitespace run, <<>> when there is none
\* (the code tests matches?.[0], which an absent match fails).
LeadingSpace(text) ==
  LET n == CHOOSE k \in 0..Len(text) :
             /\ \A i \in 1..k : text[i] \in Whitespace
             /\ (k < Len(text) => text[k + 1] \notin Whitespace)
  IN  SubSeq(text, 1, n)

\* Length of the maximal run of [a-z0-9] characters that ends the text.
TrailingRun(text) ==
  CHOOSE k \in 0..Len(text) :
    /\ \A i \in (Len(text) - k + 1)..Len(text) : text[i] \in Alnum
    /\ (k < Len(text) => text[Len(text) - k] \notin Alnum)

\* text.match(/[^a-z0-9]([a-z0-9]+)$/i): the run must be non-empty and be
\* preceded, in the text, by a character that is not [a-z0-9].
WordMatches(text) ==
  LET k == TrailingRun(text) IN k >= 1 /\ k < Len(text)

\* Group 1 of that match.
WordGroup(text) == SubSeq(text, Len(text) - TrailingRun(text) + 1, Len(text))

\* ------------------------------------------------------------------------
\* The host text surface (HTMLTextAreaElement) as updateInput drives it
\* ------------------------------------------------------------------------
\* The selection attributes are unsigned long: a negative number wraps to a
\* huge one, and every position is then clamped to the text length n.
ToPosition(x, n) == IF x < 0 THEN n ELSE Min(x, n)

\* textarea.value = v : a different value moves the caret to the end.
SetValue(ta, v) ==
  IF v = ta.value THEN ta
  ELSE [value |-> v, selectionStart |-> Len(v), selectionEnd |-> Len(v)]

\* textarea.selectionStart = x : the end is raised to x when it is below.
SetSelectionStart(ta, x) ==
  LET n == Len(ta.value)
      a == ToPosition(x, n)
  IN  [ta EXCEPT !.selectionStart = a,
                 !.selectionEnd = Max(ta.selectionEnd, a)]

\* textarea.selectionEnd = x : the start is lowered to x when it is above.
SetSelectionEnd(ta, x) ==
  LET n == Len(ta.value)
      b == ToPosition(x, n)
  IN  [ta EXCEPT !.selectionStart = Min(ta.selectionStart, b),
                 !.selectionEnd = b]

\* ------------------------------------------------------------------------
\* EditHistory
\* ------------------------------------------------------------------------
Rec(v, s, e) == [value |-> v, selectionStart |-> s, selectionEnd |-> e]

Entry(record, timestamp) ==
  [value |-> record.value, selectionStart |-> record.selectionStart,
   selectionEnd |-> record.selectionEnd, timestamp |-> timestamp]

\* let history = { stack: [], offset: -1 }
EmptyHistory == [stack |-> <<>>, offset |-> -1]

\* stack[i] is defined (JavaScript index i).
Exists(stack, i) == i >= 0 /\ i < Len(stack)

\* stack.slice(a, b) for 0 <= a, b (JavaScript indices, b exclusive).
Slice(stack, a, b) == SubSeq(stack, a + 1, Min(b, Len(stack)))

\* DropAndLimit without the slice that drops the redo entries.
DropAndLimitKeep(h) ==
  IF Len(h.stack) > HISTORY_LIMIT
  THEN LET extras == Len(h.stack) - HISTORY_LIMIT
       IN  [stack  |-> Slice(h.stack, extras, Len(h.stack)),
            offset |-> Max(h.offset - extras, 0)]
  ELSE h

\* DropAndLimit trimming the newest entries instead of the oldest.
DropAndLimitNewest(h) ==
  IF Len(h.stack) # 0 /\ h.offset > -1
  THEN LET cut   == Slice(h.stack, 0, h.offset + 1)
           count == Len(cut)
       IN  IF count > HISTORY_LIMIT
           THEN LET extras == count - HISTORY_LIMIT
                IN  [stack  |-> Slice(h.stack, 0, HISTORY_LIMIT),
                     offset |-> Max(h.offset - extras, 0)]
           ELSE [stack |-> cut, offset |-> h.offset]
  ELSE h

\* The first block of recordChange: drop the redo entries, then trim.
DropAndLimit(h) ==
  IF Len(h.stack) # 0 /\ h.offset > -1
  THEN LET cut   == Slice(h.stack, 0, h.offset + 1)
           count == Len(cut)
       IN  IF count > HISTORY_LIMIT
           THEN LET extras == count - HISTORY_LIMIT
                IN  [stack  |-> Slice(h.stack, extras, count),
                     offset |-> Max(h.offset - extras, 0)]
           ELSE [stack |-> cut, offset |-> h.offset]
  ELSE h

\* The word-merge test of recordChange on the entry last and the record.
SameWord(last, record) ==
  LET previous == Pop(getLines(last.value, last.selectionStart))
      current  == Pop(getLines(record.value, record.selectionStart))
  IN  /\ WordMatches(previous)
      /\ WordMatches(current)
      /\ StartsWith(WordGroup(current), WordGroup(previous))

\* Overwrites with the gap's end included (<= instead of <).
OverwritesLate(h, record, overwrite, timestamp) ==
  /\ overwrite
  /\ Exists(h.stack, h.offset)
  /\ timestamp - h.stack[h.offset + 1].timestamp <= HISTORY_TIME_GAP
  /\ SameWord(h.stack[h.offset + 1], record)

\* recordChange decides to overwrite stack[offset] instead of pushing.
Overwrites(h, record, overwrite, timestamp) ==
  /\ overwrite
  /\ Exists(h.stack, h.offset)
  /\ timestamp - h.stack[h.offset + 1].timestamp < HISTORY_TIME_GAP
  /\ SameWord(h.stack[h.offset + 1], record)

\* recordChange testing the overwrite before it drops the redo entries.
recordChangeOverwriteFirst(h0, record, overwrite, timestamp) ==
  IF Overwrites(h0, record, overwrite, timestamp)
  THEN [h0 EXCEPT !.stack[h0.offset + 1] = Entry(record, timestamp)]
  ELSE LET h == DropAndLimit(h0)
       IN  [stack  |-> Append(h.stack, Entry(record, timestamp)),
            offset |-> h.offset + 1]

\* recordChange(record, overwrite) with Date.now() = timestamp.
recordChange(h0, record, overwrite, timestamp) ==
  LET h == DropAndLimit(h0)
  IN  IF Overwrites(h, record, overwrite, timestamp)
      THEN [h EXCEPT !.stack[h.offset + 1] = Entry(record, timestamp)]
      ELSE [stack  |-> Append(h.stack, Entry(record, timestamp)),
            offset |-> h.offset + 1]

\* The back-patch writing the live selection into every entry.
BackPatchAll(h, ta) ==
  IF Exists(h.stack, h.offset)
  THEN [h EXCEPT !.stack =
          [i \in DOMAIN h.stack |->
             [h.stack[i] EXCEPT !.selectionStart = ta.selectionStart,
                                !.selectionEnd = ta.selectionEnd]]]
  ELSE h

\* applyEdits without the back-patch.
BackPatchNone(h, ta) == h

\* The back-patch of applyEdits: stack[offset] takes the live selection.
BackPatch(h, ta) ==
  IF Exists(h.stack, h.offset)
  THEN [h EXCEPT !.stack[h.offset + 1].selectionStart = ta.selectionStart,
                 !.stack[h.offset + 1].selectionEnd = ta.selectionEnd]
  ELSE h

\* updateInput(record): the surface after the three assignments.
updateInput(ta, record) ==
  SetSelectionEnd(
    SetSelectionStart(SetValue(ta, record.value), record.selectionStart),
    record.selectionEnd)

\* applyEdits(record)
applyEdits(h, ta, record, timestamp) ==
  [history  |-> recordChange(BackPatch(h, ta), record, FALSE, timestamp),
   textarea |-> updateInput(ta, record),
   emitted  |-> <<record.value>>]

\* undoEdit removing the entry it steps back from.
undoEditPop(h, ta) ==
  IF Exists(h.stack, h.offset - 1)
  THEN [history  |-> [stack  |-> Slice(h.stack, 0, h.offset),
                      offset |-> Max(h.offset - 1, 0)],
        textarea |-> updateInput(ta, h.stack[h.offset]),
        emitted  |-> <<h.stack[h.offset].value>>]
  ELSE [history |-> h, textarea |-> ta, emitted |-> <<>>]

\* undoEdit testing stack[offset] and stepping back without the clamp.
undoEditUnclamped(h, ta) ==
  IF Exists(h.stack, h.offset)
  THEN [history  |-> [h EXCEPT !.offset = h.offset - 1],
        textarea |-> updateInput(ta, h.stack[Max(h.offset, 1)]),
        emitted  |-> <<h.stack[Max(h.offset, 1)].value>>]
  ELSE [history |-> h, textarea |-> ta, emitted |-> <<>>]

\* undoEdit reading index -1 as the last entry.
undoEditWrap(h, ta) ==
  LET i == IF h.offset = 0 THEN Len(h.stack) - 1 ELSE h.offset - 1
  IN  IF Exists(h.stack, i)
      THEN [history  |-> [h EXCEPT !.offset = Max(h.offset - 1, 0)],
            textarea |-> updateInput(ta, h.stack[i + 1]),
            emitted  |-> <<h.stack[i + 1].value>>]
      ELSE [history |-> h, textarea |-> ta, emitted |-> <<>>]

\* undoEdit()
undoEdit(h, ta) ==
  IF Exists(h.stack, h.offset - 1)
  THEN [history  |-> [h EXCEPT !.offset = Max(h.offset - 1, 0)],
        textarea |-> updateInput(ta, h.stack[h.offset]),
        emitted  |-> <<h.stack[h.offset].value>>]
  ELSE [history |-> h, textarea |-> ta, emitted |-> <<>>]

\* redoEdit without the notification of updateInput.
redoEditSilent(h, ta) ==
  IF Exists(h.stack, h.offset + 1)
  THEN [history  |-> [h EXCEPT !.offset = Min(h.offset + 1, Len(h.stack) - 1)],
        textarea |-> updateInput(ta, h.stack[h.offset + 2]),
        emitted  |-> <<>>]
  ELSE [history |-> h, textarea |-> ta, emitted |-> <<>>]

\* redoEdit moving the cursor but applying the entry it leaves.
redoEditStale(h, ta) ==
  IF Exists(h.stack, h.offset + 1)
  THEN [history  |-> [h EXCEPT !.offset = Min(h.offset + 1, Len(h.stack) - 1)],
        textarea |-> updateInput(ta, h.stack[h.offset + 1]),
        emitted  |-> <<h.stack[h.offset + 1].value>>]
  ELSE [history |-> h, textarea |-> ta, emitted |-> <<>>]

\* redoEdit()
redoEdit(h, ta) ==
  IF Exists(h.stack, h.offset + 1)
  THEN [history  |-> [h EXCEPT !.offset = Min(h.offset + 1, Len(h.stack) - 1)],
        textarea |-> updateInput(ta, h.stack[h.offset + 2]),
        emitted  |-> <<h.stack[h.offset + 2].value>>]
  ELSE [history |-> h, textarea |-> ta, emitted |-> <<>>]

\* ------------------------------------------------------------------------
\* KeyCommandInterpreter: the records handleKeyDown builds
\* ------------------------------------------------------------------------
\* const tabCharacter = (insertSpaces ? ' ' : '\t').repeat(tabSize)
tabCharacter(insertSpaces, tabSize) ==
  Repeat(IF insertSpaces THEN " " ELSE "\t", tabSize)

\* value.split('\n').map((line, i) => F(line, i)).join('\n'), i from 0.
MapLines(value, F(_, _)) ==
  LET lines == Split(value)
  IN  Join([i \in 1..Len(lines) |-> F(lines[i], i - 1)])

\* What a branch of handleKeyDown does: whether it calls applyEdits, with
\* which record, and whether it calls e.preventDefault().
Edit(record, prevented) ==
  [edit |-> TRUE, record |-> record, prevented |-> prevented]

NoEdit(prevented) ==
  [edit |-> FALSE, record |-> Rec(<<>>, 0, 0), prevented |-> prevented]

\* UnindentValue with the last selected line left out (i < endLine).
UnindentValueShort(value, selectionStart, selectionEnd, tab) ==
  LET startLine == Len(getLines(value, selectionStart)) - 1
      endLine   == Len(getLines(value, selectionEnd)) - 1
      F(line, i) == IF i >= startLine /\ (i < endLine \/ i = startLine)
                       /\ StartsWith(line, tab)
                    THEN SubstringFrom(line, Len(tab))
                    ELSE line
  IN  MapLines(value, F)

\* Shift+Tab: unindent the selected lines.
UnindentValue(value, selectionStart, selectionEnd, tab) ==
  LET startLine == Len(getLines(value, selectionStart)) - 1
      endLine   == Len(getLines(value, selectionEnd)) - 1
      F(line, i) == IF i >= startLine /\ i <= endLine /\ StartsWith(line, tab)
                    THEN SubstringFrom(line, Len(tab))
                    ELSE line
  IN  MapLines(value, F)

\* Unindent testing the whole start line, not its part before the caret.
UnindentStartByLine(value, selectionStart, selectionEnd, tab) ==
  LET startLine     == Len(getLines(value, selectionStart)) - 1
      nextValue     == UnindentValue(value, selectionStart, selectionEnd, tab)
      startLineText == Split(value)[startLine + 1]
  IN  IF value # nextValue
      THEN Edit(Rec(nextValue,
                    IF StartsWith(startLineText, tab)
                    THEN selectionStart - Len(tab)
                    ELSE selectionStart,
                    selectionEnd - (Len(value) - Len(nextValue))),
                TRUE)
      ELSE NoEdit(TRUE)

\* Unindent without the value !== nextValue test.
UnindentAlways(value, selectionStart, selectionEnd, tab) ==
  LET linesBeforeCaret == getLines(value, selectionStart)
      startLine        == Len(linesBeforeCaret) - 1
      nextValue        == UnindentValue(value, selectionStart, selectionEnd, tab)
      startLineText    == linesBeforeCaret[startLine + 1]
  IN  Edit(Rec(nextValue,
               IF StartsWith(startLineText, tab)
               THEN selectionStart - Len(tab)
               ELSE selectionStart,
               selectionEnd - (Len(value) - Len(nextValue))),
           TRUE)

Unindent(value, selectionStart, selectionEnd, tab) ==
  LET linesBeforeCaret == getLines(value, selectionStart)
      startLine        == Len(linesBeforeCaret) - 1
      nextValue        == UnindentValue(value, selectionStart, selectionEnd, tab)
      startLineText    == linesBeforeCaret[startLine + 1]
  IN  IF value # nextValue
      THEN Edit(Rec(nextValue,
                    IF StartsWith(startLineText, tab)
                    THEN selectionStart - Len(tab)
                    ELSE selectionStart,
                    selectionEnd - (Len(value) - Len(nextValue))),
                TRUE)
      ELSE NoEdit(TRUE)

\* Tab with a selection: indent the selected lines.
IndentValue(value, selectionStart, selectionEnd, tab) ==
  LET startLine == Len(getLines(value, selectionStart)) - 1
      endLine   == Len(getLines(value, selectionEnd)) - 1
      F(line, i) == IF i >= startLine /\ i <= endLine THEN tab \o line ELSE line
  IN  MapLines(value, F)

\* Indent testing the whole start line, not its part before the caret.
IndentStartByLine(value, selectionStart, selectionEnd, tab) ==
  LET startLine     == Len(getLines(value, selectionStart)) - 1
      endLine       == Len(getLines(value, selectionEnd)) - 1
      startLineText == Split(value)[startLine + 1]
  IN  Edit(Rec(IndentValue(value, selectionStart, selectionEnd, tab),
               IF HasNonSpace(startLineText)
               THEN selectionStart + Len(tab)
               ELSE selectionStart,
               selectionEnd + Len(tab) * (endLine - startLine + 1)),
           TRUE)

Indent(value, selectionStart, selectionEnd, tab) ==
  LET linesBeforeCaret == getLines(value, selectionStart)
      startLine        == Len(linesBeforeCaret) - 1
      endLine          == Len(getLines(value, selectionEnd)) - 1
      startLineText    == linesBeforeCaret[startLine + 1]
  IN  Edit(Rec(IndentValue(value, selectionStart, selectionEnd, tab),
               IF HasNonSpace(startLineText)
               THEN selectionStart + Len(tab)
               ELSE selectionStart,
               selectionEnd + Len(tab) * (endLine - startLine + 1)),
           TRUE)

\* Tab with a collapsed caret: insert the tab character.
InsertTab(value, selectionStart, selectionEnd, tab) ==
  LET updatedSelection == selectionStart + Len(tab)
  IN  Edit(Rec(Substring(value, 0, selectionStart) \o tab
                 \o SubstringFrom(value, selectionEnd),
               updatedSelection, updatedSelection),
           TRUE)

\* Backspace without the test for a selection.
BackspaceOverSelection(value, selectionStart, selectionEnd, tab) ==
  LET textBeforeCaret == Substring(value, 0, selectionStart)
      updatedSelection == selectionStart - Len(tab)
  IN  IF EndsWith(textBeforeCaret, tab)
      THEN Edit(Rec(Substring(value, 0, selectionStart - Len(tab))
                      \o SubstringFrom(value, selectionEnd),
                    updatedSelection, updatedSelection),
                TRUE)
      ELSE NoEdit(FALSE)

\* Backspace: delete one indentation unit before a collapsed caret.
Backspace(value, selectionStart, selectionEnd, tab) ==
  LET hasSelection    == selectionStart # selectionEnd
      textBeforeCaret == Substring(value, 0, selectionStart)
      updatedSelection == selectionStart - Len(tab)
  IN  IF EndsWith(textBeforeCaret, tab) /\ ~hasSelection
      THEN Edit(Rec(Substring(value, 0, selectionStart - Len(tab))
                      \o SubstringFrom(value, selectionEnd),
                    updatedSelection, updatedSelection),
                TRUE)
      ELSE NoEdit(FALSE)

\* Enter leaving the caret right after the line break.
EnterCaretShort(value, selectionStart, selectionEnd) ==
  LET line    == Pop(getLines(value, selectionStart))
      matches == LeadingSpace(line)
      indent  == <<"\n">> \o matches
      updatedSelection == selectionStart + 1
  IN  IF selectionStart = selectionEnd /\ matches # <<>>
      THEN Edit(Rec(Substring(value, 0, selectionStart) \o indent
                      \o SubstringFrom(value, selectionEnd),
                    updatedSelection, updatedSelection),
                TRUE)
      ELSE NoEdit(FALSE)

\* Enter: keep the indentation of the caret's line.
Enter(value, selectionStart, selectionEnd) ==
  LET line    == Pop(getLines(value, selectionStart))
      matches == LeadingSpace(line)
      indent  == <<"\n">> \o matches
      updatedSelection == selectionStart + Len(indent)
  IN  IF selectionStart = selectionEnd /\ matches # <<>>
      THEN Edit(Rec(Substring(value, 0, selectionStart) \o indent
                      \o SubstringFrom(value, selectionEnd),
                    updatedSelection, updatedSelection),
                TRUE)
      ELSE NoEdit(FALSE)

\* Pair moving the selection end by one only when it wraps.
PairEndShort(key, value, selectionStart, selectionEnd) ==
  LET chars == PAIRS[key]
  IN  IF selectionStart # selectionEnd
      THEN Edit(Rec(Substring(value, 0, selectionStart) \o <<chars[1]>>
                      \o Substring(value, selectionStart, selectionEnd)
                      \o <<chars[2]>> \o SubstringFrom(value, selectionEnd),
                    selectionStart, selectionEnd + 1),
                TRUE)
      ELSE Edit(Rec(Substring(value, 0, selectionStart) \o <<chars[1]>>
                      \o <<chars[2]>> \o SubstringFrom(value, selectionEnd),
                    selectionStart + 1, selectionStart + 1),
                TRUE)

\* Pair leaving the caret after the closer when it inserts.
PairCaretAfter(key, value, selectionStart, selectionEnd) ==
  LET chars == PAIRS[key]
  IN  IF selectionStart # selectionEnd
      THEN Edit(Rec(Substring(value, 0, selectionStart) \o <<chars[1]>>
                      \o Substring(value, selectionStart, selectionEnd)
                      \o <<chars[2]>> \o SubstringFrom(value, selectionEnd),
                    selectionStart, selectionEnd + 2),
                TRUE)
      ELSE Edit(Rec(Substring(value, 0, selectionStart) \o <<chars[1]>>
                      \o <<chars[2]>> \o SubstringFrom(value, selectionEnd),
                    selectionStart + 2, selectionStart + 2),
                TRUE)

\* One of ( [ { " ' ` : wrap the selection or insert the pair.
Pair(key, value, selectionStart, selectionEnd) ==
  LET chars == PAIRS[key]
  IN  IF selectionStart # selectionEnd
      THEN Edit(Rec(Substring(value, 0, selectionStart) \o <<chars[1]>>
                      \o Substring(value, selectionStart, selectionEnd)
                      \o <<chars[2]>> \o SubstringFrom(value, selectionEnd),
                    selectionStart, selectionEnd + 2),
                TRUE)
      ELSE Edit(Rec(Substring(value, 0, selectionStart) \o <<chars[1]>>
                      \o <<chars[2]>> \o SubstringFrom(value, selectionEnd),
                    selectionStart + 1, selectionStart + 1),
                TRUE)

\* ------------------------------------------------------------------------
\* Key events and the dispatch of handleKeyDown
\* ------------------------------------------------------------------------
PairKeys == {"(", "[", "{", DQ, "'", BT}

Key(key, ctrl, meta, shift, alt) ==
  [key |-> key, ctrlKey |-> ctrl, metaKey |-> meta, shiftKey |-> shift,
   altKey |-> alt]

\* Modifier combinations, as <<ctrl, meta, shift, alt>>.
Plain == <<FALSE, FALSE, FALSE, FALSE>>

Shift == <<FALSE, FALSE, TRUE, FALSE>>

Ctrl == <<TRUE, FALSE, FALSE, FALSE>>

CtrlShift == <<TRUE, FALSE, TRUE, FALSE>>

Meta == <<FALSE, TRUE, FALSE, FALSE>>

MetaShift == <<FALSE, TRUE, TRUE, FALSE>>

CtrlAlt == <<TRUE, FALSE, FALSE, TRUE>>

KeyEvents(keys, mods) ==
  {Key(k, m[1], m[2], m[3], m[4]) : k \in keys, m \in mods}

\* isMacLike and isWindows, from navigator.platform.
Platforms == {"mac", "win", "other"}

isMacLike(plat) == plat = "mac"

isWindows(plat) == plat = "win"

UndoCombo(e, plat) ==
  /\ IF isMacLike(plat) THEN e.metaKey /\ e.key = "z"
                        ELSE e.ctrlKey /\ e.key = "z"
  /\ ~e.shiftKey
  /\ ~e.altKey

RedoCombo(e, plat) ==
  /\ IF isMacLike(plat) THEN e.metaKey /\ e.key = "z" /\ e.shiftKey
     ELSE IF isWindows(plat) THEN e.ctrlKey /\ e.key = "y"
     ELSE e.ctrlKey /\ e.key = "z" /\ e.shiftKey
  /\ ~e.altKey

ToggleCombo(e, plat) ==
  e.key = "m" /\ e.ctrlKey /\ (IF isMacLike(plat) THEN e.shiftKey ELSE TRUE)

\* Branch without the capture flag in the test of the Tab key.
BranchTabAlways(e, ta, ignoreTabKey, cap, plat) ==
  IF e.key = "Escape" THEN "escape"
  ELSE IF e.key = "Tab" /\ ~ignoreTabKey
       THEN IF e.shiftKey THEN "unindent"
            ELSE IF ta.selectionStart # ta.selectionEnd THEN "indent"
            ELSE "insertTab"
  ELSE IF e.key = "Backspace" THEN "backspace"
  ELSE IF e.key = "Enter" THEN "enter"
  ELSE IF e.key \in PairKeys
       THEN IF ta.selectionStart # ta.selectionEnd THEN "wrap" ELSE "insertPair"
  ELSE IF UndoCombo(e, plat) THEN "undo"
  ELSE IF RedoCombo(e, plat) THEN "redo"
  ELSE IF ToggleCombo(e, plat) THEN "toggle"
  ELSE "none"

\* The branch of the if / else-if chain of handleKeyDown that event e takes
\* on surface ta.
Branch(e, ta, ignoreTabKey, cap, plat) ==
  IF e.key = "Escape" THEN "escape"
  ELSE IF e.key = "Tab" /\ ~ignoreTabKey /\ cap
       THEN IF e.shiftKey THEN "unindent"
            ELSE IF ta.selectionStart # ta.selectionEnd THEN "indent"
            ELSE "insertTab"
  ELSE IF e.key = "Backspace" THEN "backspace"
  ELSE IF e.key = "Enter" THEN "enter"
  ELSE IF e.key \in PairKeys
       THEN IF ta.selectionStart # ta.selectionEnd THEN "wrap" ELSE "insertPair"
  ELSE IF UndoCombo(e, plat) THEN "undo"
  ELSE IF RedoCombo(e, plat) THEN "redo"
  ELSE IF ToggleCombo(e, plat) THEN "toggle"
  ELSE "none"

\* What the branch taken by e builds from the surface ta.
Outcome(e, ta, pr, cap, plat) ==
  LET b   == Branch(e, ta, pr.ignoreTabKey, cap, plat)
      tab == tabCharacter(pr.insertSpaces, pr.tabSize)
      v   == ta.value
      s   == ta.selectionStart
      t   == ta.selectionEnd
  IN  CASE b = "unindent"   -> Unindent(v, s, t, tab)
        [] b = "indent"     -> Indent(v, s, t, tab)
        [] b = "insertTab"  -> InsertTab(v, s, t, tab)
        [] b = "backspace"  -> Backspace(v, s, t, tab)
        [] b = "enter"      -> Enter(v, s, t)
        [] b = "wrap"       -> Pair(e.key, v, s, t)
        [] b = "insertPair" -> Pair(e.key, v, s, t)
        [] b \in {"undo", "redo", "toggle"} -> NoEdit(TRUE)
        [] OTHER            -> NoEdit(FALSE)

\* No bound: more than the component ever holds or a scope ever reaches.
Unbounded == 2 * HISTORY_LIMIT

\* ------------------------------------------------------------------------
\* State
\* ------------------------------------------------------------------------
VARIABLES
  textarea,   \* the live surface: [value, selectionStart, selectionEnd]
  history,    \* [stack, offset]
  capture,    \* the tab-capture flag
  props,      \* [insertSpaces, tabSize, ignoreTabKey]
  platform,   \* what navigator.platform matched
  now,        \* Date.now()
  mounted,    \* onMount has run
  scope,      \* the bounds of the exploration, fixed by Init
  used,       \* [selects, ticks, undos, calls] spent so far
  call,       \* the latest handler call
  last,       \* the latest handler call that changed something
  prev,       \* the one before last
  selMoved,   \* the user has moved the selection since the latest call
  cut,        \* progress of an undo / structural edit / redo sequence
  ur          \* progress of a run of undos followed by redos

vars ==
  <<textarea, history, capture, props, platform, now, mounted, scope, used,
    call, last, prev, selMoved, cut, ur>>

\* The summary of one handler call: the key of the event ("" when the call
\* is not a key event), the surface, the offset and the capture flag it
\* found, whether it called applyEdits and with which record, whether it
\* called preventDefault, and the value-change notifications it dispatched.
OpRec(op, key, out, emitted) ==
  [op |-> op, key |-> key,
   pre |-> [textarea |-> textarea, offset |-> history.offset,
            capture |-> capture],
   edit |-> out.edit, record |-> out.record, prevented |-> out.prevented,
   emitted |-> emitted]

NoOp ==
  [op |-> "none", key |-> "",
   pre |-> [textarea |-> Rec(<<>>, 0, 0), offset |-> -1, capture |-> TRUE],
   edit |-> FALSE, record |-> Rec(<<>>, 0, 0), prevented |-> FALSE,
   emitted |-> <<>>]

NoRun ==
  [armed |-> FALSE, base |-> [textarea |-> Rec(<<>>, 0, 0), offset |-> -1],
   undos |-> 0, redos |-> 0]

StructuralOps ==
  {"unindent", "indent", "insertTab", "backspace", "enter", "wrap",
   "insertPair"}

\* All texts over an alphabet up to a length.
Texts(alphabet, n) == UNION {[1..k -> alphabet] : k \in 0..n}

\* The state after construction: the history is empty and the surface holds
\* the value prop with the caret after it (the value binding has assigned
\* textarea.value).
InitWith(sc, values, propSet, plats) ==
  /\ scope = sc
  /\ \E v \in values : textarea = Rec(v, Len(v), Len(v))
  /\ history = EmptyHistory
  /\ capture = TRUE
  /\ props \in propSet
  /\ platform \in plats
  /\ now = 0
  /\ mounted = FALSE
  /\ used = [selects |-> 0, ticks |-> 0, undos |-> 0, calls |-> 0]
  /\ call = NoOp
  /\ last = NoOp
  /\ prev = NoOp
  /\ selMoved = FALSE
  /\ cut = "none"
  /\ ur = NoRun

\* ------------------------------------------------------------------------
\* Actions
\* ------------------------------------------------------------------------
\* onMount: recordCurrentState()
Mount ==
  /\ ~mounted
  /\ mounted' = TRUE
  /\ history' = recordChange(history, textarea, FALSE, now)
  /\ call' = OpRec("mount", "", NoEdit(FALSE), <<>>)
  /\ last' = call'
  /\ prev' = last
  /\ selMoved' = FALSE
  /\ cut' = "none"
  /\ ur' = NoRun
  /\ UNCHANGED <<textarea, capture, props, platform, now, scope, used>>

\* The user moves the caret or the selection on the surface; no handler of
\* the component runs.  Two moves in a row are one move, and a move is
\* explored only while the scope leaves room for the edit that reads it.
Select ==
  /\ mounted
  /\ ~selMoved
  /\ used.selects < scope.maxSelects
  /\ history.offset + 1 < scope.maxStack
  /\ \E s \in 0..Len(textarea.value) : \E e \in s..Len(textarea.value) :
       /\ <<s, e>> # <<textarea.selectionStart, textarea.selectionEnd>>
       /\ textarea' = [textarea EXCEPT !.selectionStart = s, !.selectionEnd = e]
  /\ used' = [used EXCEPT !.selects = @ + 1]
  /\ selMoved' = TRUE
  /\ ur' = NoRun
  /\ UNCHANGED <<history, capture, props, platform, now, mounted, scope, call,
                 last, prev, cut>>

\* Time passes.
Tick ==
  /\ mounted
  /\ used.ticks < scope.maxTicks
  /\ \E d \in {1, HISTORY_TIME_GAP - 1} : now' = now + d
  /\ used' = [used EXCEPT !.ticks = @ + 1]
  /\ UNCHANGED <<textarea, history, capture, props, platform, mounted, scope,
                 call, last, prev, selMoved, cut, ur>>

\* The monitor of undo-then-redo runs, after an undoEdit() call: a run
\* starts at an undo that directly follows a structural edit.
UrAfterUndo ==
  IF ur.armed
  THEN IF ur.redos = 0 /\ ur.undos < scope.maxRun
       THEN [ur EXCEPT !.undos = @ + 1]
       ELSE NoRun
  ELSE IF call.op \in StructuralOps /\ call.edit /\ ~selMoved
       THEN [armed |-> TRUE,
             base  |-> [textarea |-> textarea, offset |-> history.offset],
             undos |-> 1, redos |-> 0]
       ELSE NoRun

\* ... and after a redoEdit() call.
UrAfterRedo ==
  IF ur.armed /\ ur.redos < ur.undos
  THEN [ur EXCEPT !.redos = @ + 1]
  ELSE NoRun

\* The handler calls counted, up to the scope's maxCalls, and the undos
\* that moved the cursor, where the scope bounds them.
Counted(moves) ==
  [used EXCEPT !.calls = Min(@ + 1, scope.maxCalls),
               !.undos = IF scope.maxUndos = Unbounded THEN @ ELSE @ + moves]

\* handleKeyDown(e), whole: the branch taken, the history, the surface, the
\* capture flag.
KeyDown(e) ==
  LET b   == Branch(e, textarea, props.ignoreTabKey, capture, platform)
      out == Outcome(e, textarea, props, capture, platform)
  IN  IF out.edit
      THEN LET res == applyEdits(history, textarea, out.record, now)
           IN  /\ history.offset + 1 < scope.maxStack
               /\ Len(out.record.value) <= scope.maxLen
               /\ history' = res.history
               /\ textarea' = res.textarea
               /\ call' = OpRec(b, e.key, out, res.emitted)
               /\ last' = call'
               /\ prev' = last
               /\ cut' = IF cut = "undone" THEN "edited" ELSE "none"
               /\ ur' = NoRun
               /\ used' = Counted(0)
               /\ UNCHANGED capture
      ELSE IF b \in {"undo", "redo"}
      THEN LET res == IF b = "undo" THEN undoEdit(history, textarea)
                                    ELSE redoEdit(history, textarea)
               moved == res.emitted # <<>>
           IN  /\ b = "undo" /\ moved => used.undos < scope.maxUndos
               /\ history' = res.history
               /\ textarea' = res.textarea
               /\ call' = OpRec(b, e.key, out, res.emitted)
               /\ last' = IF moved THEN call' ELSE last
               /\ prev' = IF moved THEN last ELSE prev
               /\ cut' = IF b = "undo"
                         THEN IF moved THEN "undone" ELSE cut
                         ELSE IF cut = "edited" THEN "redone"
                         ELSE IF moved THEN "none" ELSE cut
               /\ ur' = IF b = "undo" THEN UrAfterUndo ELSE UrAfterRedo
               /\ used' = Counted(IF b = "undo" /\ moved THEN 1 ELSE 0)
               /\ UNCHANGED capture
      ELSE IF b = "toggle"
      THEN /\ capture' = ~capture
           /\ call' = OpRec(b, e.key, out, <<>>)
           /\ last' = call'
           /\ prev' = last
           /\ cut' = "none"
           /\ ur' = NoRun
           /\ used' = Counted(0)
           /\ UNCHANGED <<history, textarea>>
      ELSE /\ call' = OpRec(b, e.key, out, <<>>)
           /\ ur' = NoRun
           /\ used' = Counted(0)
           /\ UNCHANGED <<history, textarea, capture, last, prev, cut>>

\* The key events offered and the branch each takes in the current state.
Events == KeyEvents(scope.keys, scope.mods)

Taken(e) == Branch(e, textarea, props.ignoreTabKey, capture, platform)

\* handleKeyDown on Shift+Tab.
KeyUnindent ==
  /\ mounted
  /\ \E e \in Events : Taken(e) = "unindent" /\ KeyDown(e)
  /\ selMoved' = FALSE
  /\ UNCHANGED <<props, platform, now, mounted, scope>>

\* handleKeyDown on Tab with a selection.
KeyIndent ==
  /\ mounted
  /\ \E e \in Events : Taken(e) = "indent" /\ KeyDown(e)
  /\ selMoved' = FALSE
  /\ UNCHANGED <<props, platform, now, mounted, scope>>

\* handleKeyDown on Tab with a collapsed caret.
KeyInsertTab ==
  /\ mounted
  /\ \E e \in Events : Taken(e) = "insertTab" /\ KeyDown(e)
  /\ selMoved' = FALSE
  /\ UNCHANGED <<props, platform, now, mounted, scope>>

\* handleKeyDown on Backspace.
KeyBackspace ==
  /\ mounted
  /\ \E e \in Events : Taken(e) = "backspace" /\ KeyDown(e)
  /\ selMoved' = FALSE
  /\ UNCHANGED <<props, platform, now, mounted, scope>>

\* handleKeyDown on Enter.
KeyEnter ==
  /\ mounted
  /\ \E e \in Events : Taken(e) = "enter" /\ KeyDown(e)
  /\ selMoved' = FALSE
  /\ UNCHANGED <<props, platform, now, mounted, scope>>

\* handleKeyDown on a pair key with a selection.
KeyWrap ==
  /\ mounted
  /\ \E e \in Events : Taken(e) = "wrap" /\ KeyDown(e)
  /\ selMoved' = FALSE
  /\ UNCHANGED <<props, platform, now, mounted, scope>>

\* handleKeyDown on a pair key with a collapsed caret.
KeyInsertPair ==
  /\ mounted
  /\ \E e \in Events : Taken(e) = "insertPair" /\ KeyDown(e)
  /\ selMoved' = FALSE
  /\ UNCHANGED <<props, platform, now, mounted, scope>>

\* handleKeyDown on the undo combination.
KeyUndo ==
  /\ mounted
  /\ \E e \in Events : Taken(e) = "undo" /\ KeyDown(e)
  /\ selMoved' = FALSE
  /\ UNCHANGED <<props, platform, now, mounted, scope>>

\* handleKeyDown on the redo combination.
KeyRedo ==
  /\ mounted
  /\ \E e \in Events : Taken(e) = "redo" /\ KeyDown(e)
  /\ selMoved' = FALSE
  /\ UNCHANGED <<props, platform, now, mounted, scope>>

\* handleKeyDown on the capture-toggle combination.
KeyToggle ==
  /\ mounted
  /\ \E e \in Events : Taken(e) = "toggle" /\ KeyDown(e)
  /\ selMoved' = FALSE
  /\ UNCHANGED <<props, platform, now, mounted, scope>>

\* handleKeyDown on Escape (the blur is not modelled), on a key no branch
\* matches, and on Tab while it is not captured.
KeyOther ==
  /\ mounted
  /\ \E e \in Events : Taken(e) \in {"escape", "none"} /\ KeyDown(e)
  /\ selMoved' = FALSE
  /\ UNCHANGED <<props, platform, now, mounted, scope>>

\* The surfaces a native, uncaptured change can leave: one character typed
\* over the selection, or the selection (else the character before the
\* caret) deleted.
NativeChanges(ta, chars, erase) ==
  LET v == ta.value
      s == ta.selectionStart
      e == ta.selectionEnd
  IN  {Rec(Substring(v, 0, s) \o <<c>> \o SubstringFrom(v, e), s + 1, s + 1) :
         c \in chars}
      \cup (IF erase /\ s # e
            THEN {Rec(Substring(v, 0, s) \o SubstringFrom(v, e), s, s)}
            ELSE IF erase /\ s > 0
            THEN {Rec(Substring(v, 0, s - 1) \o SubstringFrom(v, e), s - 1, s - 1)}
            ELSE {})

\* handleChange(e): the surface changed natively and the change event
\* carries its value and selection.
HandleChange ==
  /\ mounted
  /\ \E post \in NativeChanges(textarea, scope.typed, scope.erase) :
       LET h == recordChange(history, post, TRUE, now)
       IN  /\ Len(post.value) <= scope.maxLen
           /\ h.offset < scope.maxStack
           /\ textarea' = post
           /\ history' = h
           /\ call' = [OpRec("change", "", NoEdit(FALSE), <<post.value>>)
                         EXCEPT !.record = post]
  /\ last' = call'
  /\ prev' = last
  /\ selMoved' = FALSE
  /\ cut' = "none"
  /\ ur' = NoRun
  /\ used' = Counted(0)
  /\ UNCHANGED <<capture, props, platform, now, mounted, scope>>

\* ------------------------------------------------------------------------
\* Specifications
\* ------------------------------------------------------------------------
MaxInitLen == 2

MaxTabSize == 2

MaxStack == 3

MaxSelects == 1

\* The key-command interpreter on every small text: any value prop up to
\* MaxInitLen characters, either indentation setting, every structural key.
KeysScope ==
  [keys |-> {"Tab", "Backspace", "Enter", "(", "'"},
   mods |-> {Plain, Shift},
   typed |-> {}, erase |-> FALSE,
   maxStack |-> MaxStack, maxLen |-> Unbounded, maxSelects |-> MaxSelects,
   maxTicks |-> 0, maxRun |-> 0, maxUndos |-> 0, maxCalls |-> 0]

Init ==
  InitWith(KeysScope, Texts({"a", " ", "\n"}, MaxInitLen),
           [insertSpaces : BOOLEAN, tabSize : 1..MaxTabSize,
            ignoreTabKey : {FALSE}],
           {"other"})

Next ==
  \/ Mount
  \/ Select
  \/ KeyUnindent
  \/ KeyIndent
  \/ KeyInsertTab
  \/ KeyBackspace
  \/ KeyEnter
  \/ KeyWrap
  \/ KeyInsertPair

Spec == Init /\ [][Next]_vars

\* The default props: insertSpaces = true, tabSize = 2, ignoreTabKey = false.
DefaultTabSize == 2

DefaultProps ==
  [insertSpaces |-> TRUE, tabSize |-> DefaultTabSize, ignoreTabKey |-> FALSE]

HistStack == 4

HistLen == 4

MaxRun == 3

\* The history under structural edits, native changes, undo and redo, on
\* the default props.
HistScope ==
  [keys |-> {"Tab", "(", "z"},
   mods |-> {Plain, Shift, Ctrl, CtrlShift},
   typed |-> {"a"}, erase |-> FALSE,
   maxStack |-> HistStack, maxLen |-> HistLen, maxSelects |-> MaxSelects,
   maxTicks |-> 0, maxRun |-> MaxRun, maxUndos |-> Unbounded, maxCalls |-> 0]

InitHist ==
  InitWith(HistScope, {<<>>, <<" ">>}, {DefaultProps}, {"other"})

NextHist ==
  \/ Mount
  \/ Select
  \/ KeyUnindent
  \/ KeyIndent
  \/ KeyInsertTab
  \/ KeyWrap
  \/ KeyInsertPair
  \/ KeyUndo
  \/ KeyRedo
  \/ HandleChange

SpecHist == InitHist /\ [][NextHist]_vars

LimitLen == 2

LimitUndos == 2

\* The history at its cap: Tab and Backspace alternate on an empty value
\* (the default props), so that the stack fills up entry by entry.
LimitScope ==
  [keys |-> {"Tab", "Backspace", "z"},
   mods |-> {Plain, Ctrl, CtrlShift},
   typed |-> {}, erase |-> FALSE,
   maxStack |-> Unbounded, maxLen |-> LimitLen, maxSelects |-> 0,
   maxTicks |-> 0, maxRun |-> 0, maxUndos |-> LimitUndos, maxCalls |-> 0]

InitLimit ==
  InitWith(LimitScope, {<<>>}, {DefaultProps}, {"other"})

NextLimit ==
  \/ Mount
  \/ KeyInsertTab
  \/ KeyBackspace
  \/ KeyUndo
  \/ KeyRedo

SpecLimit == InitLimit /\ [][NextLimit]_vars

TypeStack == 4

TypeLen == 4

TypeTicks == 2

TypeCalls == 4

\* Native typing of the letters f and o, with time passing, undo and redo.
TypeScope ==
  [keys |-> {"z"},
   mods |-> {Ctrl, CtrlShift},
   typed |-> {"f", "o"}, erase |-> FALSE,
   maxStack |-> TypeStack, maxLen |-> TypeLen, maxSelects |-> 0,
   maxTicks |-> TypeTicks, maxRun |-> 0, maxUndos |-> Unbounded,
   maxCalls |-> TypeCalls]

InitType ==
  InitWith(TypeScope, {<<>>, <<" ">>}, {DefaultProps}, {"other"})

NextType ==
  \/ Mount
  \/ Tick
  \/ HandleChange
  \/ KeyUndo
  \/ KeyRedo

SpecType == InitType /\ [][NextType]_vars

PairLen == 2

PairStack == 3

\* The six pair keys on every text of up to PairLen characters, with any
\* selection, on the default props.
PairsScope ==
  [keys |-> PairKeys,
   mods |-> {Plain},
   typed |-> {}, erase |-> FALSE,
   maxStack |-> PairStack, maxLen |-> Unbounded, maxSelects |-> MaxSelects,
   maxTicks |-> 0, maxRun |-> 0, maxUndos |-> 0, maxCalls |-> 0]

InitPairs ==
  InitWith(PairsScope, Texts({"x", "\n"}, PairLen), {DefaultProps}, {"other"})

NextPairs ==
  \/ Mount
  \/ Select
  \/ KeyWrap
  \/ KeyInsertPair

SpecPairs == InitPairs /\ [][NextPairs]_vars

CaptureLen == 2

CaptureStack == 3

\* The Tab key and the capture toggle, with ignoreTabKey set or not, on a
\* Mac and elsewhere.
CaptureScope ==
  [keys |-> {"Tab", "m"},
   mods |-> {Plain, Shift, Ctrl, CtrlShift},
   typed |-> {}, erase |-> FALSE,
   maxStack |-> CaptureStack, maxLen |-> Unbounded, maxSelects |-> MaxSelects,
   maxTicks |-> 0, maxRun |-> 0, maxUndos |-> 0, maxCalls |-> 0]

InitCapture ==
  InitWith(CaptureScope, Texts({" ", "a"}, CaptureLen),
           [insertSpaces : {TRUE}, tabSize : {DefaultTabSize},
            ignoreTabKey : BOOLEAN],
           {"mac", "other"})

NextCapture ==
  \/ Mount
  \/ Select
  \/ KeyUnindent
  \/ KeyIndent
  \/ KeyInsertTab
  \/ KeyToggle
  \/ KeyOther

SpecCapture == InitCapture /\ [][NextCapture]_vars

NotifyStack == 3

NotifyLen == 4

\* Every kind of handler call: structural edits, an unindent with nothing
\* to strip, undo, redo, the capture toggle, unmatched keys and native
\* changes, on the default props.
NotifyScope ==
  [keys |-> {"Tab", "z", "m"},
   mods |-> {Plain, Shift, Ctrl, CtrlShift},
   typed |-> {"a"}, erase |-> TRUE,
   maxStack |-> NotifyStack, maxLen |-> NotifyLen, maxSelects |-> 0,
   maxTicks |-> 0, maxRun |-> 0, maxUndos |-> Unbounded, maxCalls |-> 0]

InitNotify ==
  InitWith(NotifyScope, {<<>>, <<" ", " ">>}, {DefaultProps}, {"other"})

NextNotify ==
  \/ Mount
  \/ KeyUnindent
  \/ KeyInsertTab
  \/ KeyUndo
  \/ KeyRedo
  \/ KeyToggle
  \/ KeyOther
  \/ HandleChange

SpecNotify == InitNotify /\ [][NextNotify]_vars

GapStack == 4

GapLen == 5

GapTicks == 2

\* Native typing of the letter f after a space and wrapping of a selection,
\* with time passing: records made with and without overwrite, inside and
\* outside the time gap.
GapScope ==
  [keys |-> {"("},
   mods |-> {Plain},
   typed |-> {"f"}, erase |-> FALSE,
   maxStack |-> GapStack, maxLen |-> GapLen, maxSelects |-> MaxSelects,
   maxTicks |-> GapTicks, maxRun |-> 0, maxUndos |-> 0, maxCalls |-> 0]

InitGap ==
  InitWith(GapScope, {<<" ">>}, {DefaultProps}, {"other"})

NextGap ==
  \/ Mount
  \/ Select
  \/ Tick
  \/ HandleChange
  \/ KeyWrap
  \/ KeyInsertPair

SpecGap == InitGap /\ [][NextGap]_vars

\* ------------------------------------------------------------------------
\* Properties of the key-command interpreter (specification Spec)
\* ------------------------------------------------------------------------
\* The Record invariant: 0 <= selectionStart <= selectionEnd <= length(value).
WellFormed(record) ==
  /\ 0 <= record.selectionStart
  /\ record.selectionStart <= record.selectionEnd
  /\ record.selectionEnd <= Len(record.value)

\* The tab character of the current configuration.
Tab == tabCharacter(props.insertSpaces, props.tabSize)

\* C3: every Record a key command builds and applies satisfies
\* 0 <= selectionStart <= selectionEnd <= length(value), the live selection
\* being well formed when the key is pressed.
C3_RecordsWellFormed ==
  (call.edit /\ WellFormed(call.pre.textarea)) => WellFormed(call.record)

\* C3, for every command but Unindent: the records of Indent, Insert tab,
\* Delete indentation unit, Auto-indent, Wrap selection and Insert pair are
\* well formed.
C3_OthersWellFormed ==
  (call.edit /\ call.op # "unindent") => WellFormed(call.record)

\* C9: a Shift+Tab whose resulting text equals the current text records
\* nothing: the stack, the offset and the live surface are left as they are.
C9_NullUnindentRecordsNothing ==
  [][(/\ call' # call
      /\ call'.op = "unindent"
      /\ UnindentValue(textarea.value, textarea.selectionStart,
                       textarea.selectionEnd, Tab) = textarea.value)
     => (history' = history /\ textarea' = textarea)]_vars

\* A Shift+Tab on a text with nothing to strip has been handled.
C9_Witness ==
  /\ call.op = "unindent"
  /\ ~call.edit
  /\ call.pre.textarea.value # <<>>
  /\ Len(history.stack) > 1

\* The Indent that the Shift+Tab of the latest call directly followed: the
\* call found the surface and the offset exactly as that Indent left them.
IndentBefore ==
  IF call.edit THEN prev ELSE last

UnindentRightAfterIndent ==
  /\ call.op = "unindent"
  /\ IndentBefore.op = "indent"
  /\ call.pre.offset = IndentBefore.pre.offset + 1
  /\ call.pre.textarea =
       updateInput(IndentBefore.pre.textarea, IndentBefore.record)

\* C10: Tab (Indent) on a non-empty selection, followed immediately by
\* Shift+Tab on the selection Indent produced, restores the original text.
C10_IndentUnindentRestoresText ==
  UnindentRightAfterIndent
    => textarea.value = IndentBefore.pre.textarea.value

\* Such a round trip over a selection that spans two lines.
C10_Witness ==
  /\ UnindentRightAfterIndent
  /\ Len(getLines(IndentBefore.pre.textarea.value,
                  IndentBefore.pre.textarea.selectionEnd))
       > Len(getLines(IndentBefore.pre.textarea.value,
                      IndentBefore.pre.textarea.selectionStart))
  /\ textarea.value = IndentBefore.pre.textarea.value

\* C11: Tab (Indent) on a non-empty selection, followed immediately by
\* Shift+Tab, restores the original selectionStart and selectionEnd.
C11_IndentUnindentRestoresSelection ==
  UnindentRightAfterIndent =>
    /\ textarea.selectionStart = IndentBefore.pre.textarea.selectionStart
    /\ textarea.selectionEnd = IndentBefore.pre.textarea.selectionEnd

\* The text of the start line before the selection start, when Indent ran.
StartLineTextBefore ==
  Pop(getLines(IndentBefore.pre.textarea.value,
               IndentBefore.pre.textarea.selectionStart))

\* What the code keeps of C11: the selection comes back when the selection
\* started at the head of its line or after some text that is not white
\* space (Indent leaves the start alone after white space only, while
\* Unindent moves it back whenever that white space begins with the tab
\* character).
C11_RestoresSelectionAfterText ==
  (/\ UnindentRightAfterIndent
   /\ StartLineTextBefore = <<>> \/ HasNonSpace(StartLineTextBefore)) =>
    /\ textarea.selectionStart = IndentBefore.pre.textarea.selectionStart
    /\ textarea.selectionEnd = IndentBefore.pre.textarea.selectionEnd

\* A step pushed exactly one entry, holding record, above the current one.
PushedOne(record) ==
  /\ history'.offset = history.offset + 1
  /\ Len(history'.stack) = history.offset + 2
  /\ \A i \in 1..(history.offset + 1) :
       history'.stack[i].value = history.stack[i].value
  /\ Rec(history'.stack[history.offset + 2].value,
         history'.stack[history.offset + 2].selectionStart,
         history'.stack[history.offset + 2].selectionEnd) = record

\* Where the line of position s begins in text v (0 or after a line break).
LineStart(v, s) ==
  LET breaks == {i \in 1..s : v[i] = "\n"}
  IN  IF breaks = {} THEN 0 ELSE CHOOSE i \in breaks : \A j \in breaks : j <= i

\* The run of blanks that begins the line of s, as far as s.
LineIndent(v, s) ==
  LET from == LineStart(v, s)
      n == CHOOSE k \in 0..(s - from) :
             /\ \A i \in 1..k : v[from + i] \in {" ", "\t"}
             /\ (k < s - from => v[from + k + 1] \notin {" ", "\t"})
  IN  SubSeq(v, from + 1, from + n)

\* C14: Enter with a collapsed caret at s on a line that begins, before the
\* caret, with a run w of white space inserts "\n" + w at s and leaves a
\* collapsed caret at s + 1 + length(w); with a selection, or without
\* leading white space, Enter records no edit.
C14_AutoIndent ==
  [][\A e \in Events :
       (mounted /\ Taken(e) = "enter" /\ KeyDown(e)) =>
         LET v == textarea.value
             s == textarea.selectionStart
             t == textarea.selectionEnd
             w == LineIndent(v, s)
             next == SubSeq(v, 1, s) \o <<"\n">> \o w \o SubSeq(v, s + 1, Len(v))
             caret == s + 1 + Len(w)
         IN  IF s = t /\ w # <<>>
             THEN /\ call'.edit
                  /\ textarea' = Rec(next, caret, caret)
                  /\ PushedOne(Rec(next, caret, caret))
             ELSE /\ ~call'.edit
                  /\ history' = history
                  /\ textarea' = textarea]_vars

\* Enter has been pressed after some text on an indented line that is not
\* the first one.
C14_Witness ==
  /\ call.op = "enter"
  /\ call.edit
  /\ LineStart(call.pre.textarea.value, call.pre.textarea.selectionStart) > 0
  /\ Len(LineIndent(call.pre.textarea.value, call.pre.textarea.selectionStart))
       < call.pre.textarea.selectionStart
           - LineStart(call.pre.textarea.value, call.pre.textarea.selectionStart)
  /\ textarea = call.record

\* Enter has been pressed with a selection on an indented line: no edit.
C14_WitnessSelection ==
  /\ call.op = "enter"
  /\ ~call.edit
  /\ call.pre.textarea.selectionStart # call.pre.textarea.selectionEnd
  /\ LineIndent(call.pre.textarea.value, call.pre.textarea.selectionStart) # <<>>

\* C15: Backspace with a collapsed caret at s after a tabCharacter removes
\* that tabCharacter, leaves a collapsed caret at s - length(tabCharacter),
\* pushes one history entry and suppresses the default; with a selection,
\* or when the text before the caret does not end with tabCharacter, it
\* records no edit and does not suppress the default.
C15_BackspaceOverIndent ==
  [][\A e \in Events :
       (mounted /\ Taken(e) = "backspace" /\ KeyDown(e)) =>
         LET v == textarea.value
             s == textarea.selectionStart
             t == textarea.selectionEnd
             n == Len(Tab)
             next == SubSeq(v, 1, s - n) \o SubSeq(v, s + 1, Len(v))
         IN  IF s = t /\ s >= n /\ SubSeq(v, s - n + 1, s) = Tab
             THEN /\ call'.edit
                  /\ call'.prevented
                  /\ textarea' = Rec(next, s - n, s - n)
                  /\ PushedOne(Rec(next, s - n, s - n))
             ELSE /\ ~call'.edit
                  /\ ~call'.prevented
                  /\ history' = history
                  /\ textarea' = textarea]_vars

\* Backspace has removed an indentation unit of two characters from the
\* middle of a text.
C15_Witness ==
  /\ call.op = "backspace"
  /\ call.edit
  /\ call.prevented
  /\ Len(Tab) = 2
  /\ call.pre.textarea.selectionStart < Len(call.pre.textarea.value)
  /\ textarea = call.record

\* Backspace has been pressed with a selection that follows a tabCharacter:
\* no edit, the default is left to the surface.
C15_WitnessSelection ==
  /\ call.op = "backspace"
  /\ ~call.edit
  /\ ~call.prevented
  /\ call.pre.textarea.selectionStart # call.pre.textarea.selectionEnd
  /\ EndsWith(SubSeq(call.pre.textarea.value, 1,
                     call.pre.textarea.selectionStart), Tab)

\* The latest call applied a structural edit and the user has not touched
\* the surface since.
JustApplied ==
  /\ call.edit
  /\ call.op \in StructuralOps
  /\ ~selMoved

\* The record is live on the surface, it is the entry stack[offset], and it
\* was pushed as a new step above the entry that was current.
LiveAndPushed ==
  /\ textarea = call.record
  /\ history.offset = call.pre.offset + 1
  /\ Len(history.stack) = history.offset + 1
  /\ Rec(history.stack[history.offset + 1].value,
         history.stack[history.offset + 1].selectionStart,
         history.stack[history.offset + 1].selectionEnd) = call.record
  /\ history.stack[history.offset].value = call.pre.textarea.value
  /\ history.stack[history.offset].selectionStart
       = call.pre.textarea.selectionStart
  /\ history.stack[history.offset].selectionEnd
       = call.pre.textarea.selectionEnd

\* C20: immediately after a structural edit is applied through
\* applyEdits(record), the live value, selectionStart and selectionEnd equal
\* the record's, stack[offset] holds exactly that record, and the record was
\* pushed as a new step above the back-patched previous entry.
C20_AppliedEditIsLiveAndPushed ==
  JustApplied => LiveAndPushed

\* What the code keeps of C20: the same for every record that is well
\* formed (the surface clamps the selection of a record that is not).
C20_WellFormedEditIsLiveAndPushed ==
  (JustApplied /\ WellFormed(call.record)) => LiveAndPushed

\* What the code keeps of C20 for every record: it is pushed as a new step
\* and stack[offset] holds it.
C20_EveryEditIsPushed ==
  JustApplied =>
    /\ history.offset = call.pre.offset + 1
    /\ Len(history.stack) = history.offset + 1
    /\ Rec(history.stack[history.offset + 1].value,
           history.stack[history.offset + 1].selectionStart,
           history.stack[history.offset + 1].selectionEnd) = call.record

\* The whole line that holds position s of text v starts with tab.
LineStartsWith(v, s, tab) ==
  LET from == LineStart(v, s)
  IN  /\ from + Len(tab) <= Len(v)
      /\ SubSeq(v, from + 1, from + Len(tab)) = tab

\* The part of that line that lies before s starts with tab.
TextBeforeStartsWith(v, s, tab) ==
  LET from == LineStart(v, s)
  IN  /\ from + Len(tab) <= s
      /\ SubSeq(v, from + 1, from + Len(tab)) = tab

C21_WitnessMoved ==
  /\ call.op = "unindent"
  /\ call.edit
  /\ LineStart(call.pre.textarea.value, call.pre.textarea.selectionStart) > 0
  /\ TextBeforeStartsWith(call.pre.textarea.value,
                          call.pre.textarea.selectionStart, Tab)
  /\ call.record.selectionStart
       = call.pre.textarea.selectionStart - Len(Tab)

\* Where the line of position s ends in text v (at a line break or at the
\* end of the text).
LineEnd(v, s) ==
  LET breaks == {i \in (s + 1)..Len(v) : v[i] = "\n"}
  IN  IF breaks = {} THEN Len(v)
      ELSE (CHOOSE i \in breaks : \A j \in breaks : i <= j) - 1

\* The positions of text v where the lines spanned by [s, e] begin.
LineStarts(v, s, e) ==
  {LineStart(v, s)} \cup {i \in (s + 1)..e : v[i] = "\n"}

\* Text v from position i on, with tab put in at each of those positions.
RECURSIVE PutAt(_, _, _, _)
PutAt(v, points, tab, i) ==
  (IF i \in points THEN tab ELSE <<>>)
    \o (IF i < Len(v) THEN <<v[i + 1]>> \o PutAt(v, points, tab, i + 1)
        ELSE <<>>)

\* The record Indent builds has the text with tabCharacter before every
\* spanned line and the end moved by tabCharacter for each of them.
IndentTextAndEnd ==
  LET v == call.pre.textarea.value
      s == call.pre.textarea.selectionStart
      e == call.pre.textarea.selectionEnd
  IN  /\ call.record.value = PutAt(v, LineStarts(v, s, e), Tab, 0)
      /\ call.record.selectionEnd
           = e + Len(Tab) * Cardinality(LineStarts(v, s, e))

\* C22: Tab with a non-empty selection prepends tabCharacter to every line
\* from startLine to endLine, moves selectionStart right by
\* length(tabCharacter) exactly when the first affected line had a character
\* that is not white space, and moves selectionEnd right by
\* length(tabCharacter) times the number of affected lines.
C22_IndentRule ==
  call.op = "indent" =>
    LET v == call.pre.textarea.value
        s == call.pre.textarea.selectionStart
    IN  /\ IndentTextAndEnd
        /\ call.record.selectionStart =
             IF \E i \in (LineStart(v, s) + 1)..LineEnd(v, s) :
                  v[i] \notin Whitespace
             THEN s + Len(Tab)
             ELSE s

\* What the code does: the same, with selectionStart moved exactly when a
\* character that is not white space stands before selectionStart on the
\* first affected line.
C22_IndentRuleBeforeStart ==
  call.op = "indent" =>
    LET v == call.pre.textarea.value
        s == call.pre.textarea.selectionStart
    IN  /\ IndentTextAndEnd
        /\ call.record.selectionStart =
             IF \E i \in (LineStart(v, s) + 1)..s : v[i] \notin Whitespace
             THEN s + Len(Tab)
             ELSE s

\* Tab has indented two lines from a selection that started at the head of
\* a line holding text: selectionStart stayed.
C22_Witness ==
  /\ call.op = "indent"
  /\ Cardinality(LineStarts(call.pre.textarea.value,
                            call.pre.textarea.selectionStart,
                            call.pre.textarea.selectionEnd)) = 2
  /\ call.pre.textarea.value[call.pre.textarea.selectionStart + 1] = "a"
  /\ call.pre.textarea.selectionStart
       = LineStart(call.pre.textarea.value, call.pre.textarea.selectionStart)
  /\ call.record.selectionStart = call.pre.textarea.selectionStart
  /\ textarea = call.record

\* Tab has indented from a selection that started after some text:
\* selectionStart moved.
C22_WitnessMoved ==
  /\ call.op = "indent"
  /\ call.record.selectionStart
       = call.pre.textarea.selectionStart + Len(Tab)
  /\ Len(Tab) = 2

\* ------------------------------------------------------------------------
\* Properties of the history (specification SpecHist)
\* ------------------------------------------------------------------------
\* C2: -1 <= offset <= length(stack) - 1; offset is -1 only while the stack
\* is empty, before the mount entry is pushed; after mount, offset always
\* designates an existing entry.
C2_OffsetInRange ==
  /\ -1 <= history.offset
  /\ history.offset <= Len(history.stack) - 1
  /\ history.offset = -1 => (history.stack = <<>> /\ ~mounted)
  /\ mounted => Exists(history.stack, history.offset)

\* The cursor sits at the oldest of three entries after undos.
C2_Witness ==
  /\ call.op = "undo"
  /\ history.offset = 0
  /\ Len(history.stack) >= 3

\* C4: after an undo followed by a new structural edit, the entries that
\* were after the cursor are gone and redo is a no-op: it leaves the history
\* and the live surface as the edit left them.
C4_RedoAfterNewEditIsNoOp ==
  /\ [](cut = "edited" => history.offset = Len(history.stack) - 1)
  /\ [][(cut = "edited" /\ call' # call /\ call'.op = "redo")
        => (history' = history /\ textarea' = textarea)]_vars

\* Redo has been called right after a structural edit that followed an undo.
C4_Witness ==
  /\ cut = "redone"
  /\ call.op = "redo"
  /\ last.op \in StructuralOps
  /\ prev.op = "undo"

\* The latest call is an undo that moved the cursor, the change before it
\* was a structural edit, and the surface is as the undo left it.
UndoAfterEdit ==
  /\ call.op = "undo"
  /\ call = last
  /\ prev.op \in StructuralOps
  /\ ~selMoved

\* C5: after structural edits, a single undo sets the live surface to the
\* entry that precedes the last push, and that entry carries the text and
\* the selection that were live immediately before the last edit.
C5_UndoRestoresLiveStateBeforeEdit ==
  UndoAfterEdit =>
    /\ history.offset = prev.pre.offset
    /\ textarea = prev.pre.textarea
    /\ Rec(history.stack[history.offset + 1].value,
           history.stack[history.offset + 1].selectionStart,
           history.stack[history.offset + 1].selectionEnd) = prev.pre.textarea

\* The undone edit was made on the mount entry after the user had moved the
\* caret away from where the mount recorded it.
C5_Witness ==
  /\ UndoAfterEdit
  /\ prev.pre.offset = 0
  /\ prev.pre.textarea.selectionStart # Len(prev.pre.textarea.value)
  /\ textarea = prev.pre.textarea

\* C6: from the state a structural edit leaves, N undos followed by N redos
\* bring back the live value and selection and the offset.
C6_UndosThenRedosRestore ==
  (ur.armed /\ ur.redos = ur.undos) =>
    /\ textarea = ur.base.textarea
    /\ history.offset = ur.base.offset

\* Two undos or more, then as many redos.
C6_Witness ==
  /\ ur.armed
  /\ ur.undos >= 2
  /\ ur.redos = ur.undos
  /\ textarea = ur.base.textarea

\* C7: undo with the cursor at the oldest entry and redo with the cursor at
\* the newest entry leave the stack, the offset and the live surface
\* unchanged.
C7_UndoRedoBeyondBoundsAreNoOps ==
  [][(/\ call' # call
      /\ \/ call'.op = "undo" /\ history.offset <= 0
         \/ call'.op = "redo" /\ history.offset >= Len(history.stack) - 1)
     => (history' = history /\ textarea' = textarea)]_vars

\* An undo has been called with the cursor at the oldest of several
\* entries.
C7_Witness ==
  /\ call.op = "undo"
  /\ call.pre.offset = 0
  /\ Len(history.stack) >= 2
  /\ call # last

\* A redo has been called with the cursor at the newest of several entries.
C7_WitnessRedo ==
  /\ call.op = "redo"
  /\ call.pre.offset = Len(history.stack) - 1
  /\ Len(history.stack) >= 2
  /\ call # last

\* ------------------------------------------------------------------------
\* Properties of the history at its cap (specification SpecLimit)
\* ------------------------------------------------------------------------
\* C1: in every reachable state the stack holds at most HISTORY_LIMIT
\* entries.
C1_StackWithinLimit == Len(history.stack) <= HISTORY_LIMIT

\* What the code keeps instead: the stack is trimmed to HISTORY_LIMIT before
\* the push, so it holds at most HISTORY_LIMIT + 1 entries.
C1_StackWithinLimitPlusOne == Len(history.stack) <= HISTORY_LIMIT + 1

\* A step is a record made while more than HISTORY_LIMIT entries lie at or
\* below the cursor: recordChange trims.
TrimmingRecord ==
  /\ call' # call
  /\ call'.edit
  /\ history.offset + 1 > HISTORY_LIMIT

\* C23: when recordChange trims the stack at the cap it removes entries
\* from the front only, lowers offset by the number removed, and the cursor
\* designates after the trim the entry it designated before; the clamp of
\* offset at 0 never changes that.  Seen after the push that follows the
\* trim: the entries below the new one are the old entries from the first
\* one kept up to the cursor, and the new entry lies right above the entry
\* that was current.
C23_TrimKeepsCursorEntry ==
  [][TrimmingRecord =>
       LET removed == history.offset + 2 - Len(history'.stack)
       IN  /\ removed = history.offset + 1 - HISTORY_LIMIT
           /\ history'.offset = history.offset - removed + 1
           /\ \A i \in 1..(Len(history'.stack) - 1) :
                /\ history'.stack[i].value = history.stack[i + removed].value
                /\ history'.stack[i].timestamp
                     = history.stack[i + removed].timestamp
           /\ history'.stack[history'.offset].value
                = history.stack[history.offset + 1].value
           /\ Rec(history'.stack[history'.offset + 1].value,
                  history'.stack[history'.offset + 1].selectionStart,
                  history'.stack[history'.offset + 1].selectionEnd)
                = call'.record]_vars

\* A record has been made with HISTORY_LIMIT + 1 entries at or below the
\* cursor: the oldest one has been trimmed.
C23_Witness ==
  /\ call.edit
  /\ call.pre.offset = HISTORY_LIMIT
  /\ history.offset = HISTORY_LIMIT
  /\ Len(history.stack) = HISTORY_LIMIT + 1

\* ------------------------------------------------------------------------
\* Properties of native typing (specification SpecType)
\* ------------------------------------------------------------------------
Foo == <<"f", "o", "o">>

\* The first three handler calls after mount were native changes that typed
\* f, o, o into an empty value, all within HISTORY_TIME_GAP of the mount.
TypedFoo ==
  /\ used.calls = 3
  /\ call.op = "change"
  /\ textarea.value = Foo
  /\ now < HISTORY_TIME_GAP

\* ... and the fourth was an undo.
UndoAfterFoo ==
  /\ used.calls = 4
  /\ call.op = "undo"
  /\ call = last
  /\ prev.op = "change"
  /\ prev.record.value = Foo
  /\ now < HISTORY_TIME_GAP

\* C8: typing f, o, o as native changes within the time gap leaves exactly
\* one entry beyond the mount entry, with value foo, and a single undo then
\* restores the mount state.
C8_TypingFooCoalesces ==
  /\ TypedFoo =>
       /\ Len(history.stack) = 2
       /\ history.stack[2].value = Foo
       /\ history.offset = 1
  /\ UndoAfterFoo => textarea.value = <<>>

\* What the code does for the same keys typed after a space: one entry
\* beyond the mount entry, and a single undo removes the whole word.
SpaceFoo == <<" ">> \o Foo

C8_TypingFooAfterSpaceCoalesces ==
  /\ (used.calls = 3 /\ call.op = "change" /\ textarea.value = SpaceFoo
        /\ now < HISTORY_TIME_GAP) =>
       /\ Len(history.stack) = 2
       /\ history.stack[2].value = SpaceFoo
  /\ (used.calls = 4 /\ call.op = "undo" /\ call = last
        /\ prev.op = "change" /\ prev.record.value = SpaceFoo
        /\ now < HISTORY_TIME_GAP) => textarea.value = <<" ">>

\* The run of [A-Za-z0-9] characters that ends right before selectionStart
\* in a record (such a run never crosses a line break).
WordBefore(record) ==
  LET v == record.value
      s == record.selectionStart
      n == CHOOSE k \in 0..s :
             /\ \A i \in (s - k + 1)..s : v[i] \in Alnum
             /\ (k < s => v[s - k] \notin Alnum)
  IN  SubSeq(v, s - n + 1, s)

\* The same run, when a character that is not [A-Za-z0-9] precedes it on
\* its line, and the empty text otherwise.
WordAfterOther(record) ==
  LET w == WordBefore(record)
      at == record.selectionStart - Len(w)
  IN  IF at > 0 /\ record.value[at] # "\n" THEN w ELSE <<>>

\* A step that is a native change recorded while the current entry exists
\* and is less than HISTORY_TIME_GAP old.
ChangeWithinGap ==
  /\ call' # call
  /\ call'.op = "change"
  /\ Exists(history.stack, history.offset)
  /\ now - history.stack[history.offset + 1].timestamp < HISTORY_TIME_GAP

\* The step overwrote the current entry with the incoming record.
Overwrote ==
  /\ history'.offset = history.offset
  /\ Len(history'.stack) = history.offset + 1
  /\ history'.stack[history.offset + 1] = Entry(call'.record, now)

\* The step pushed the incoming record above the current entry.
Pushed ==
  /\ history'.offset = history.offset + 1
  /\ Len(history'.stack) = history.offset + 2
  /\ history'.stack[history.offset + 1] = history.stack[history.offset + 1]
  /\ history'.stack[history.offset + 2] = Entry(call'.record, now)

\* C18: a native change recorded within the time gap overwrites the current
\* entry exactly when the current entry and the incoming record both have a
\* non-empty run of [A-Za-z0-9] right before selectionStart and the incoming
\* run starts with the previous one, wherever on the line the run begins;
\* in every other case a new entry is pushed.
C18_WordMergeRule ==
  [][ChangeWithinGap =>
       LET previous == WordBefore(history.stack[history.offset + 1])
           current  == WordBefore(call'.record)
       IN  IF previous # <<>> /\ current # <<>> /\ StartsWith(current, previous)
           THEN Overwrote
           ELSE Pushed]_vars

\* What the code does: the same rule for runs that follow, on their line, a
\* character that is not [A-Za-z0-9]; a run that begins its line counts as
\* no run.
C18_WordMergeRuleAfterOther ==
  [][ChangeWithinGap =>
       LET previous == WordAfterOther(history.stack[history.offset + 1])
           current  == WordAfterOther(call'.record)
       IN  IF previous # <<>> /\ current # <<>> /\ StartsWith(current, previous)
           THEN Overwrote
           ELSE Pushed]_vars

\* A native change has overwritten the current entry: the word after the
\* space grew.
C18_WitnessOverwrote ==
  /\ call.op = "change"
  /\ history.offset = call.pre.offset
  /\ call.pre.offset >= 1
  /\ WordAfterOther(call.record) = <<"f", "o">>

\* ------------------------------------------------------------------------
\* Properties of the time gap (specification SpecGap)
\* ------------------------------------------------------------------------
\* The word-merge test passes on the current entry and the record of the
\* step's call.
WordsMerge ==
  LET previous == WordAfterOther(history.stack[history.offset + 1])
      current  == WordAfterOther(call'.record)
  IN  previous # <<>> /\ current # <<>> /\ StartsWith(current, previous)

\* C19: a record made with overwrite never overwrites the current entry
\* when now - timestamp >= HISTORY_TIME_GAP, whatever the word-merge test
\* says; a difference of 0 counts as within the gap; a record made without
\* overwrite (a structural edit) never overwrites, whatever the elapsed
\* time.
C19_TimeGap ==
  [][(call' # call /\ Exists(history.stack, history.offset)) =>
       LET elapsed == now - history.stack[history.offset + 1].timestamp
       IN  /\ (call'.op = "change" /\ elapsed >= HISTORY_TIME_GAP) => Pushed
           /\ (call'.op = "change" /\ elapsed = 0 /\ WordsMerge) => Overwrote
           /\ (call'.op \in StructuralOps /\ call'.edit)
                => PushedOne(call'.record)]_vars

\* A native change made exactly HISTORY_TIME_GAP after the current entry
\* has been pushed, although it continues the word of that entry.
C19_Witness ==
  /\ call.op = "change"
  /\ history.offset = call.pre.offset + 1
  /\ history.offset >= 2
  /\ history.stack[history.offset + 1].timestamp
       - history.stack[history.offset].timestamp = HISTORY_TIME_GAP
  /\ WordAfterOther(history.stack[history.offset]) # <<>>
  /\ StartsWith(WordAfterOther(call.record),
                WordAfterOther(history.stack[history.offset]))

\* A native change made in the same millisecond as the current entry has
\* overwritten it.
C19_WitnessZero ==
  /\ call.op = "change"
  /\ history.offset = call.pre.offset
  /\ now = 0
  /\ WordAfterOther(call.record) = <<"f", "f">>

\* A wrap has been pushed in the same millisecond as the current entry,
\* although the word before its selection continues the word of that entry.
C19_WitnessWrap ==
  /\ call.op = "wrap"
  /\ history.offset = call.pre.offset + 1
  /\ history.stack[history.offset + 1].timestamp
       = history.stack[history.offset].timestamp
  /\ WordAfterOther(history.stack[history.offset]) # <<>>
  /\ StartsWith(WordAfterOther(call.record),
                WordAfterOther(history.stack[history.offset]))

\* ------------------------------------------------------------------------
\* Properties of the pair keys (specification SpecPairs)
\* ------------------------------------------------------------------------
\* The closer that matches an opening key: ) ] } or the same quote.
Closer(key) ==
  CASE key = "(" -> ")"
    [] key = "[" -> "]"
    [] key = "{" -> "}"
    [] OTHER -> key

\* C12: a pair key pressed with a non-empty selection [s, e] replaces the
\* text by text[0:s] + open + text[s:e] + close + text[e:], leaves
\* selectionStart at s, sets selectionEnd to e + 2 and pushes exactly one
\* history entry.
C12_WrapSelection ==
  [][\A e \in Events :
       (mounted /\ Taken(e) = "wrap" /\ KeyDown(e)) =>
         LET v == textarea.value
             s == textarea.selectionStart
             t == textarea.selectionEnd
             wrapped == SubSeq(v, 1, s) \o <<e.key>> \o SubSeq(v, s + 1, t)
                          \o <<Closer(e.key)>> \o SubSeq(v, t + 1, Len(v))
         IN  /\ textarea' = Rec(wrapped, s, t + 2)
             /\ PushedOne(Rec(wrapped, s, t + 2))]_vars

\* A selection inside a longer text has been wrapped in square brackets.
C12_Witness ==
  /\ call.op = "wrap"
  /\ call.pre.textarea.selectionStart > 0
  /\ call.record.value[call.pre.textarea.selectionStart + 1] = "["
  /\ call.record.value[call.record.selectionEnd] = "]"
  /\ textarea = call.record
  /\ history.offset >= 2

\* C13: a pair key pressed with a collapsed caret at s splices the open and
\* the matching close character at s, leaves a collapsed caret at s + 1
\* and pushes one history entry.
C13_InsertPair ==
  [][\A e \in Events :
       (mounted /\ Taken(e) = "insertPair" /\ KeyDown(e)) =>
         LET v == textarea.value
             s == textarea.selectionStart
             spliced == SubSeq(v, 1, s) \o <<e.key, Closer(e.key)>>
                          \o SubSeq(v, s + 1, Len(v))
         IN  /\ textarea' = Rec(spliced, s + 1, s + 1)
             /\ PushedOne(Rec(spliced, s + 1, s + 1))]_vars

\* The example of C13: "x" with the caret at 1 and the key ' gives "x''"
\* with the caret at 2.
C13_Witness ==
  /\ call.op = "insertPair"
  /\ call.pre.textarea = Rec(<<"x">>, 1, 1)
  /\ textarea = Rec(<<"x", "'", "'">>, 2, 2)
  /\ history.offset = 1
  /\ Len(history.stack) = 2

\* ------------------------------------------------------------------------
\* Properties of the tab capture (specification SpecCapture)
\* ------------------------------------------------------------------------
\* The capture-toggle combination: Ctrl+M, or Ctrl+Shift+M on a Mac.
IsToggle(e) ==
  /\ e.key = "m"
  /\ e.ctrlKey
  /\ platform = "mac" => e.shiftKey

\* C16: the Tab key is intercepted (an edit is recorded, the default is
\* suppressed) only while ignoreTabKey is false and the capture flag is
\* true; the flag starts true; each capture-toggle combination flips it and
\* changes nothing else; while the flag is false a Tab key press leaves the
\* history, the live surface and the flag unchanged.
C16_TabCapture ==
  /\ [](~mounted => capture)
  /\ [][\A e \in Events :
          (mounted /\ KeyDown(e)) =>
            /\ (e.key = "Tab" /\ (call'.edit \/ call'.prevented))
                 => (~props.ignoreTabKey /\ capture)
            /\ IsToggle(e)
                 => (/\ capture' = ~capture
                     /\ history' = history
                     /\ textarea' = textarea)
            /\ (e.key = "Tab" /\ ~capture)
                 => (/\ history' = history
                     /\ textarea' = textarea
                     /\ capture' = capture
                     /\ ~call'.prevented)]_vars

\* The Tab key has been pressed while the flag was false, after an edit
\* made while it was true and a toggle: nothing has changed.
C16_Witness ==
  /\ call.key = "Tab"
  /\ call.op = "none"
  /\ ~call.pre.capture
  /\ ~capture
  /\ ~props.ignoreTabKey
  /\ last.op = "toggle"
  /\ prev.op \in {"insertTab", "indent", "unindent"}
  /\ Len(history.stack) = 2

\* The flag has been switched back on and Tab is intercepted again.
C16_WitnessBack ==
  /\ call.key = "Tab"
  /\ call.edit
  /\ capture
  /\ prev.op = "toggle"
  /\ platform = "mac"

\* ------------------------------------------------------------------------
\* Properties of the notifications (specification SpecNotify)
\* ------------------------------------------------------------------------
\* The latest handler call is one of those that notify: an applied
\* structural edit, an undo or a redo that moved the cursor, or a native
\* change.
Notifies ==
  \/ call.op \in StructuralOps /\ call.edit
  \/ call.op \in {"undo", "redo"} /\ history.offset # call.pre.offset
  \/ call.op = "change"

\* C17: a value-change notification carrying the live text is emitted once
\* after every applied structural edit, after every undo or redo that moves
\* the cursor and after every native change, and in no other case.
C17_NotifiesOncePerChange ==
  call.emitted = IF Notifies THEN <<textarea.value>> ELSE <<>>

\* A redo that moved the cursor has notified the text it restored.
C17_Witness ==
  /\ call.op = "redo"
  /\ history.offset = call.pre.offset + 1
  /\ call.emitted = <<textarea.value>>
  /\ textarea.value # call.pre.textarea.value

\* A redo at the newest entry, with older entries below, has notified
\* nothing.
C17_WitnessSilent ==
  /\ call.op = "redo"
  /\ history.offset = call.pre.offset
  /\ Len(history.stack) >= 2
  /\ call.emitted = <<>>

\* ------------------------------------------------------------------------
\* Frame of the back-patch (specification SpecGap)
\* ------------------------------------------------------------------------
\* The entry current with its selection fields replaced by the live ones.
Patched(current, ta) ==
  [value          |-> current.value,
   selectionStart |-> ta.selectionStart,
   selectionEnd   |-> ta.selectionEnd,
   timestamp      |-> current.timestamp]

\* What the back-patch alone does to the history of the current state.
BackPatchFrame ==
  LET b == BackPatch(history, textarea)
  IN  /\ b.offset = history.offset
      /\ Len(b.stack) = Len(history.stack)
      /\ \A i \in 1..Len(history.stack) :
           b.stack[i] = IF i = history.offset + 1
                        THEN Patched(history.stack[i], textarea)
                        ELSE history.stack[i]

\* C24: the back-patch of applyEdits changes only selectionStart and
\* selectionEnd of the entry at offset, setting them to the selection of
\* the live surface; that entry's value and timestamp, every other entry,
\* the stack length and the offset are left alone and no step is created.
\* On every applied structural edit: the entries below the cursor are
\* untouched, the entry that was current differs by its selection only,
\* and the single new entry is the one recordChange pushes.
C24_BackPatchFrame ==
  [][(call' # call /\ call'.edit) =>
       /\ BackPatchFrame
       /\ Len(history'.stack) = history.offset + 2
       /\ history'.offset = history.offset + 1
       /\ \A i \in 1..history.offset : history'.stack[i] = history.stack[i]
       /\ history'.stack[history.offset + 1]
            = Patched(history.stack[history.offset + 1], textarea)
       /\ history'.stack[history.offset + 2] = Entry(call'.record, now)]_vars

\* A structural edit has been applied at a later time than the entry
\* under it was made and after the selection was moved over the whole
\* text: that entry now carries the moved selection and its old timestamp.
C24_Witness ==
  /\ call.edit
  /\ history.offset >= 1
  /\ LET under == history.stack[history.offset]
     IN  /\ Len(under.value) > 0
         /\ under.selectionStart = 0
         /\ under.selectionEnd = Len(under.value)
         /\ under.selectionStart = call.pre.textarea.selectionStart
         /\ under.selectionEnd = call.pre.textarea.selectionEnd
         /\ under.value = call.pre.textarea.value
         /\ under.timestamp < history.stack[history.offset + 1].timestamp

\* ------------------------------------------------------------------------
\* The cursor after a record (specification SpecHist)
\* ------------------------------------------------------------------------
\* A step that calls recordChange: the mount, an applied structural edit,
\* a native change.  Each of them changes the history, and no other step
\* changes it while the latest call is an edit or a change.
RecordStep ==
  \/ ~mounted /\ mounted'
  \/ mounted /\ history' # history /\ call'.edit
  \/ mounted /\ history' # history /\ call'.op = "change"

\* redoEdit() finds no entry to apply.
RedoIsNoOp(h, ta) ==
  LET res == redoEdit(h, ta)
  IN  /\ res.history = h
      /\ res.textarea = ta
      /\ res.emitted = <<>>

\* C25: right after every recordChange call on a mounted editor, whether
\* it pushed or overwrote and whether it came from a structural edit or a
\* native change, offset = length(stack) - 1: the redo entries are gone
\* and redoEdit() does nothing, also when a native change is merged into
\* the current entry after an undo.
C25_CursorOnTopAfterRecord ==
  [][RecordStep =>
       /\ history'.offset = Len(history'.stack) - 1
       /\ RedoIsNoOp(history', textarea')]_vars

\* A native change has been merged into the current entry right after an
\* undo that left a redo entry above it.
C25_Witness ==
  /\ call.op = "change"
  /\ prev.op = "undo"
  /\ prev.emitted # <<>>
  /\ call.pre.offset = prev.pre.offset - 1
  /\ history.offset = call.pre.offset
  /\ Len(history.stack) = history.offset + 1
  /\ history.stack[history.offset + 1].value = call.record.value

\* A structural edit has been pushed right after an undo.
C25_WitnessPushed ==
  /\ call.edit
  /\ prev.op = "undo"
  /\ prev.emitted # <<>>
  /\ history.offset = call.pre.offset + 1
  /\ Len(history.stack) = history.offset + 1

\* ------------------------------------------------------------------------
\* Frame of undo and redo (specification SpecHist)
\* ------------------------------------------------------------------------
\* The step is an undoEdit() or a redoEdit() call; target is the index it
\* reads.
UndoRedoFrame ==
  (call' # call /\ call'.op \in {"undo", "redo"}) =>
    LET target == IF call'.op = "undo" THEN history.offset - 1
                                       ELSE history.offset + 1
    IN  /\ history'.stack = history.stack
        /\ IF Exists(history.stack, target)
           THEN /\ history'.offset = target
                /\ textarea' = updateInput(textarea, history.stack[target + 1])
           ELSE /\ history'.offset = history.offset
                /\ textarea' = textarea

\* The ways a step changes the stack of a mounted editor: under a push, the
\* entry that was current is back-patched (structural edit) or kept
\* (native change); or the native change overwrites the entry that was
\* current.  The entries above the cursor go in both cases, the entries
\* below it stay (no stack of this specification reaches the cap).
StackChangeFrame ==
  (mounted /\ history'.stack # history.stack) =>
    /\ call'.edit \/ call'.op = "change"
    /\ \A i \in 1..history.offset : history'.stack[i] = history.stack[i]
    /\ \/ /\ Len(history'.stack) = history.offset + 2
          /\ history'.offset = history.offset + 1
          /\ history'.stack[history.offset + 1]
               = IF call'.edit
                 THEN Patched(history.stack[history.offset + 1], textarea)
                 ELSE history.stack[history.offset + 1]
          /\ history'.stack[history.offset + 2] = Entry(call'.record, now)
       \/ /\ call'.op = "change"
          /\ Len(history'.stack) = history.offset + 1
          /\ history'.offset = history.offset
          /\ history'.stack[history.offset + 1] = Entry(call'.record, now)

\* C26: undoEdit() and redoEdit() never modify the stack: they change the
\* offset, by exactly one and only when the target entry exists, and the
\* live surface, and add, remove, overwrite or back-patch no entry; the
\* entries change only through the overwrite of a merged change, the
\* selection back-patch, the drop of the redo entries or the trim at the
\* cap.
C26_UndoRedoLeaveStack ==
  [][UndoRedoFrame /\ StackChangeFrame]_vars

\* An undo has stepped back from the newest of three entries or more.
C26_Witness ==
  /\ call.op = "undo"
  /\ call.emitted # <<>>
  /\ history.offset = call.pre.offset - 1
  /\ Len(history.stack) = call.pre.offset + 1
  /\ Len(history.stack) >= 3
  /\ textarea.value = history.stack[history.offset + 1].value

\* A redo has stepped forward to an entry that is not the newest.
C26_WitnessRedo ==
  /\ call.op = "redo"
  /\ call.emitted # <<>>
  /\ history.offset = call.pre.offset + 1
  /\ Len(history.stack) > history.offset + 1
  /\ textarea.value = history.stack[history.offset + 1].value







====
